---- MODULE Spec2Model ----
(***************************************************************************)
(* The tool-invocation protocol client of FLUJO                            *)
(* (backend/services/mcp/tools: src/unnamed/part_001).                     *)
(*                                                                         *)
(* callTool is modelled as a state machine, one slot per invocation: each  *)
(* await of the source is a position (pc) and each settlement of a         *)
(* collaborator promise (resolveGlobalVars, client.callTool, the deadline  *)
(* timer, transport.send) is an action.  JavaScript strings are sequences  *)
(* of one-character strings, so that includes / startsWith / endsWith and  *)
(* template literals are computed, not assumed.                            *)
(***************************************************************************)
EXTENDS Integers, Sequences, FiniteSets, TLC

(***************************************************************************)
(* Bounds of the model                                                     *)
(***************************************************************************)
\* largest timeout (seconds) a caller passes
MaxTimeout == 1
\* number of callTool invocations started in one behaviour
MaxInvocations == 2
\* number of invocation slots (invocations that may be in flight together)
NumCalls == 2

(***************************************************************************)
(* String literals of the source                                           *)
(***************************************************************************)
\* "number"
s_number ==
    <<"n", "u", "m", "b", "e", "r">>
\* "Count"
s_Count ==
    <<"C", "o", "u", "n", "t">>
\* "Id"
s_Id ==
    <<"I", "d">>
\* "Limit"
s_Limit ==
    <<"L", "i", "m", "i", "t">>
\* "bool"
s_bool ==
    <<"b", "o", "o", "l">>
\* "is"
s_is ==
    <<"i", "s">>
\* "has"
s_has ==
    <<"h", "a", "s">>
\* "should"
s_should ==
    <<"s", "h", "o", "u", "l", "d">>
\* "array"
s_array ==
    <<"a", "r", "r", "a", "y">>
\* "s"
s_s ==
    <<"s">>
\* "List"
s_List ==
    <<"L", "i", "s", "t">>
\* "Items"
s_Items ==
    <<"I", "t", "e", "m", "s">>
\* "object"
s_object ==
    <<"o", "b", "j", "e", "c", "t">>
\* "Options"
s_Options ==
    <<"O", "p", "t", "i", "o", "n", "s">>
\* "Config"
s_Config ==
    <<"C", "o", "n", "f", "i", "g">>
\* "Settings"
s_Settings ==
    <<"S", "e", "t", "t", "i", "n", "g", "s">>
\* "Server "
s_Server ==
    <<"S", "e", "r", "v", "e", "r", " ">>
\* " not found"
s_not_found ==
    <<" ", "n", "o", "t", " ", "f", "o", "u", "n", "d">>
\* "timed out"
s_timed_out ==
    <<"t", "i", "m", "e", "d", " ", "o", "u", "t">>
\* "Tool execution timed out after "
s_Tool_execution_timed_out_after ==
    <<"T", "o", "o", "l", " ", "e", "x", "e", "c", "u", "t", "i", "o", "n", " ", "t", "i",
      "m", "e", "d", " ", "o", "u", "t", " ", "a", "f", "t", "e", "r", " ">>
\* "Execution timed out after "
s_Execution_timed_out_after ==
    <<"E", "x", "e", "c", "u", "t", "i", "o", "n", " ", "t", "i", "m", "e", "d", " ", "o",
      "u", "t", " ", "a", "f", "t", "e", "r", " ">>
\* " seconds"
s_seconds ==
    <<" ", "s", "e", "c", "o", "n", "d", "s">>
\* "Unknown error"
s_Unknown_error ==
    <<"U", "n", "k", "n", "o", "w", "n", " ", "e", "r", "r", "o", "r">>
\* "401"
s_401 ==
    <<"4", "0", "1">>
\* "Unauthorized"
s_Unauthorized ==
    <<"U", "n", "a", "u", "t", "h", "o", "r", "i", "z", "e", "d">>
\* "invalid_token"
s_invalid_token ==
    <<"i", "n", "v", "a", "l", "i", "d", "_", "t", "o", "k", "e", "n">>
\* "token_expired"
s_token_expired ==
    <<"t", "o", "k", "e", "n", "_", "e", "x", "p", "i", "r", "e", "d">>
\* "OAuth authentication failed or tokens have expired. Please re-authenticate the server."
s_OAuth_failed ==
    <<"O", "A", "u", "t", "h", " ", "a", "u", "t", "h", "e", "n", "t", "i", "c", "a", "t",
      "i", "o", "n", " ", "f", "a", "i", "l", "e", "d", " ", "o", "r", " ", "t", "o", "k",
      "e", "n", "s", " ", "h", "a", "v", "e", " ", "e", "x", "p", "i", "r", "e", "d", ".",
      " ", "P", "l", "e", "a", "s", "e", " ", "r", "e", "-", "a", "u", "t", "h", "e", "n",
      "t", "i", "c", "a", "t", "e", " ", "t", "h", "e", " ", "s", "e", "r", "v", "e", "r", ".">>
\* "404"
s_404 ==
    <<"4", "0", "4">>
\* "Not Found"
s_Not_Found ==
    <<"N", "o", "t", " ", "F", "o", "u", "n", "d">>
\* "Tool endpoint not found (404). This may indicate OAuth authentication issues or the server may not be properly configured."
s_endpoint_not_found ==
    <<"T", "o", "o", "l", " ", "e", "n", "d", "p", "o", "i", "n", "t", " ", "n", "o", "t",
      " ", "f", "o", "u", "n", "d", " ", "(", "4", "0", "4", ")", ".", " ", "T", "h", "i",
      "s", " ", "m", "a", "y", " ", "i", "n", "d", "i", "c", "a", "t", "e", " ", "O", "A",
      "u", "t", "h", " ", "a", "u", "t", "h", "e", "n", "t", "i", "c", "a", "t", "i", "o",
      "n", " ", "i", "s", "s", "u", "e", "s", " ", "o", "r", " ", "t", "h", "e", " ", "s",
      "e", "r", "v", "e", "r", " ", "m", "a", "y", " ", "n", "o", "t", " ", "b", "e", " ",
      "p", "r", "o", "p", "e", "r", "l", "y", " ", "c", "o", "n", "f", "i", "g", "u", "r",
      "e", "d", ".">>
\* "Failed to call tool: "
s_Failed_to_call_tool ==
    <<"F", "a", "i", "l", "e", "d", " ", "t", "o", " ", "c", "a", "l", "l", " ", "t", "o",
      "o", "l", ":", " ">>
\* " (Code: "
s_Code_open ==
    <<" ", "(", "C", "o", "d", "e", ":", " ">>
\* ")"
s_Code_close ==
    <<")">>
\* "Client has no transport"
s_no_transport ==
    <<"C", "l", "i", "e", "n", "t", " ", "h", "a", "s", " ", "n", "o", " ", "t", "r", "a",
      "n", "s", "p", "o", "r", "t">>
\* "Transport does not support sending messages"
s_no_send ==
    <<"T", "r", "a", "n", "s", "p", "o", "r", "t", " ", "d", "o", "e", "s", " ", "n", "o",
      "t", " ", "s", "u", "p", "p", "o", "r", "t", " ", "s", "e", "n", "d", "i", "n", "g",
      " ", "m", "e", "s", "s", "a", "g", "e", "s">>
\* "Server not connected"
s_Server_not_connected ==
    <<"S", "e", "r", "v", "e", "r", " ", "n", "o", "t", " ", "c", "o", "n", "n", "e", "c",
      "t", "e", "d">>
\* "Connection timeout"
s_Connection_timeout ==
    <<"C", "o", "n", "n", "e", "c", "t", "i", "o", "n", " ", "t", "i", "m", "e", "o", "u", "t">>
\* "Failed to list tools: "
s_Failed_to_list_tools ==
    <<"F", "a", "i", "l", "e", "d", " ", "t", "o", " ", "l", "i", "s", "t", " ", "t", "o",
      "o", "l", "s", ":", " ">>

(***************************************************************************)
(* String operations                                                       *)
(***************************************************************************)
\* s.includes(sub)
includes(s, sub) ==
    \E k \in 0..(Len(s) - Len(sub)) : \A j \in 1..Len(sub) : s[k + j] = sub[j]

\* s.startsWith(sub)
startsWith(s, sub) ==
    /\ Len(sub) <= Len(s)
    /\ \A j \in 1..Len(sub) : s[j] = sub[j]

\* s.endsWith(sub)
endsWith(s, sub) ==
    /\ Len(sub) <= Len(s)
    /\ \A j \in 1..Len(sub) : s[Len(s) - Len(sub) + j] = sub[j]

Digits == <<"0", "1", "2", "3", "4", "5", "6", "7", "8", "9">>

RECURSIVE NatDigits(_)
NatDigits(n) ==
    IF n < 10 THEN <<Digits[n + 1]>>
    ELSE NatDigits(n \div 10) \o <<Digits[(n % 10) + 1]>>

\* `${n}` for an integer n inside a template literal
NumberToString(n) == IF n < 0 THEN <<"-">> \o NatDigits(-n) ELSE NatDigits(n)

(***************************************************************************)
(* Argument values.  A value is [t, v]: t its JavaScript kind, v a small   *)
(* payload.  null and undefined are the two absent values.                 *)
(***************************************************************************)
Val(t, v) == [t |-> t, v |-> v]
Undefined == Val("undefined", 0)
Null == Val("null", 0)
IsAbsent(value) == value = Undefined \/ value = Null

\* variant: the object rule is tried before the array rule
InferDefault_ObjectBeforeArray(key) ==
    IF \/ includes(key, s_number) \/ endsWith(key, s_Count)
       \/ endsWith(key, s_Id) \/ endsWith(key, s_Limit)
    THEN Val("number", 0)
    ELSE IF \/ includes(key, s_bool) \/ startsWith(key, s_is)
            \/ startsWith(key, s_has) \/ startsWith(key, s_should)
    THEN Val("boolean", 0)
    ELSE IF \/ includes(key, s_object) \/ endsWith(key, s_Options)
            \/ endsWith(key, s_Config) \/ endsWith(key, s_Settings)
    THEN Val("object", 0)
    ELSE IF \/ includes(key, s_array) \/ endsWith(key, s_s)
            \/ endsWith(key, s_List) \/ endsWith(key, s_Items)
    THEN Val("array", 0)
    ELSE Val("string", 0)

\* variant: "Count" anywhere in the key makes it a number
InferDefault_CountAnywhere(key) ==
    IF \/ includes(key, s_number) \/ includes(key, s_Count)
       \/ endsWith(key, s_Id) \/ endsWith(key, s_Limit)
    THEN Val("number", 0)
    ELSE IF \/ includes(key, s_bool) \/ startsWith(key, s_is)
            \/ startsWith(key, s_has) \/ startsWith(key, s_should)
    THEN Val("boolean", 0)
    ELSE IF \/ includes(key, s_array) \/ endsWith(key, s_s)
            \/ endsWith(key, s_List) \/ endsWith(key, s_Items)
    THEN Val("array", 0)
    ELSE IF \/ includes(key, s_object) \/ endsWith(key, s_Options)
            \/ endsWith(key, s_Config) \/ endsWith(key, s_Settings)
    THEN Val("object", 0)
    ELSE Val("string", 0)

\* variant: the array rule is tried before the boolean rule
InferDefault_ArrayFirst(key) ==
    IF \/ includes(key, s_number) \/ endsWith(key, s_Count)
       \/ endsWith(key, s_Id) \/ endsWith(key, s_Limit)
    THEN Val("number", 0)
    ELSE IF \/ includes(key, s_array) \/ endsWith(key, s_s)
            \/ endsWith(key, s_List) \/ endsWith(key, s_Items)
    THEN Val("array", 0)
    ELSE IF \/ includes(key, s_bool) \/ startsWith(key, s_is)
            \/ startsWith(key, s_has) \/ startsWith(key, s_should)
    THEN Val("boolean", 0)
    ELSE IF \/ includes(key, s_object) \/ endsWith(key, s_Options)
            \/ endsWith(key, s_Config) \/ endsWith(key, s_Settings)
    THEN Val("object", 0)
    ELSE Val("string", 0)

\* variant: the boolean rule is tried before the number rule
InferDefault_BoolFirst(key) ==
    IF \/ includes(key, s_bool) \/ startsWith(key, s_is)
       \/ startsWith(key, s_has) \/ startsWith(key, s_should)
    THEN Val("boolean", 0)
    ELSE IF \/ includes(key, s_number) \/ endsWith(key, s_Count)
            \/ endsWith(key, s_Id) \/ endsWith(key, s_Limit)
    THEN Val("number", 0)
    ELSE IF \/ includes(key, s_array) \/ endsWith(key, s_s)
            \/ endsWith(key, s_List) \/ endsWith(key, s_Items)
    THEN Val("array", 0)
    ELSE IF \/ includes(key, s_object) \/ endsWith(key, s_Options)
            \/ endsWith(key, s_Config) \/ endsWith(key, s_Settings)
    THEN Val("object", 0)
    ELSE Val("string", 0)

\* the default chosen from the key name (part_001, lines 29-45)
InferDefault(key) ==
    IF \/ includes(key, s_number) \/ endsWith(key, s_Count)
       \/ endsWith(key, s_Id) \/ endsWith(key, s_Limit)
    THEN Val("number", 0)
    ELSE IF \/ includes(key, s_bool) \/ startsWith(key, s_is)
            \/ startsWith(key, s_has) \/ startsWith(key, s_should)
    THEN Val("boolean", 0)
    ELSE IF \/ includes(key, s_array) \/ endsWith(key, s_s)
            \/ endsWith(key, s_List) \/ endsWith(key, s_Items)
    THEN Val("array", 0)
    ELSE IF \/ includes(key, s_object) \/ endsWith(key, s_Options)
            \/ endsWith(key, s_Config) \/ endsWith(key, s_Settings)
    THEN Val("object", 0)
    ELSE Val("string", 0)

\* an argument map is a function from keys to values; the args parameter
\* holds a map, or is null / undefined (falsy)
EmptyMap == [k \in {} |-> Undefined]
Object(map) == [falsy |-> FALSE, map |-> map]
Falsy == [falsy |-> TRUE, map |-> EmptyMap]

\* variant: absent values are passed on as they are
normalizeToolArguments_Keeps(args) ==
    IF args.falsy THEN EmptyMap ELSE args.map

normalizeToolArguments(args) ==
    IF args.falsy THEN EmptyMap
    ELSE [key \in DOMAIN args.map |->
            IF IsAbsent(args.map[key]) THEN InferDefault(key) ELSE args.map[key]]

(***************************************************************************)
(* Errors.  A thrown value is [isError, isMcp, code, message]: isError     *)
(* is `instanceof Error`, isMcp is `instanceof McpError` (with its code).  *)
(***************************************************************************)
Err(isError, isMcp, code, message) ==
    [isError |-> isError, isMcp |-> isMcp, code |-> code, message |-> message]

\* new Error(message)
NewError(message) == Err(TRUE, FALSE, 0, message)

\* error instanceof Error ? error.message : 'Unknown error'
MessageOf(error) == IF error.isError THEN error.message ELSE s_Unknown_error

\* the OAuth test of the outer catch (lines 243-244)
IsAuthError(errorMessage) ==
    \/ includes(errorMessage, s_401)
    \/ includes(errorMessage, s_Unauthorized)
    \/ includes(errorMessage, s_invalid_token)
    \/ includes(errorMessage, s_token_expired)

\* the 404 test of the outer catch (line 255)
IsNotFound(errorMessage) ==
    includes(errorMessage, s_404) \/ includes(errorMessage, s_Not_Found)

\* variant: invalid params is not given a status of its own
McpStatus_NoInvalidParams(code, statusCode) ==
    IF code = -32601 THEN 404
    ELSE IF code = -32603 THEN 500
    ELSE statusCode

\* the mapping of MCP error codes to HTTP status codes (lines 265-271)
McpStatus(code, statusCode) ==
    IF code = -32601 THEN 404
    ELSE IF code = -32602 THEN 400
    ELSE IF code = -32603 THEN 500
    ELSE statusCode

\* the body of callTool's outer catch (lines 237-281): the result returned
\* for a thrown error
ClassifyError(error) ==
    LET errorMessage == MessageOf(error)
        notFound == IsNotFound(errorMessage)
        statusCode == IF notFound THEN 404 ELSE 500
        message == IF notFound THEN s_endpoint_not_found ELSE errorMessage
    IN  IF IsAuthError(errorMessage)
        THEN [success |-> FALSE, error |-> s_OAuth_failed, statusCode |-> 401,
              requiresAuthentication |-> TRUE]
        ELSE IF error.isMcp
        THEN [success |-> FALSE,
              error |-> s_Failed_to_call_tool \o message \o s_Code_open
                        \o NumberToString(error.code) \o s_Code_close,
              statusCode |-> McpStatus(error.code, statusCode)]
        ELSE [success |-> FALSE, error |-> s_Failed_to_call_tool \o message,
              statusCode |-> statusCode]

(***************************************************************************)
(* Control flow of an async function: a block completes by returning a     *)
(* value or by throwing; the promise of the function settles accordingly.  *)
(***************************************************************************)
Return(value) == [kind |-> "return", value |-> value]
Throw(error) == [kind |-> "throw", error |-> error]

NoPromise == [state |-> "none"]
Pending == [state |-> "pending"]
\* the settlement of the promise an async function returned
Settle(completion) ==
    IF completion.kind = "return"
    THEN [state |-> "fulfilled", value |-> completion.value]
    ELSE [state |-> "rejected", reason |-> completion.error]

\* variant: no catch around the body of callTool
OuterTry_NoCatch(completion) == completion

\* try { ... } catch (error) { classify } around the body of callTool
OuterTry(completion) ==
    IF completion.kind = "throw"
    THEN Return(ClassifyError(completion.error))
    ELSE completion

\* variant: a failure of the cancellation attempt is not caught
CancelTry_Propagates(completion) == completion

\* variant: only a rejection of transport.send is caught, not the errors
\* cancelToolExecution throws before it sends
CancelTry_SendOnly(completion) ==
    IF completion.kind = "throw"
       /\ completion.error.message \in {s_no_transport, s_no_send}
    THEN completion
    ELSE Return(TRUE)

\* try { await cancelToolExecution(...) } catch (cancelError) { log.warn }:
\* the cancellation attempt completes normally whatever the notifier did
CancelTry(completion) == Return(TRUE)

(***************************************************************************)
(* callTool: values it builds                                              *)
(***************************************************************************)
serverName == <<"s", "r", "v">>

\* variant: the absent handle is reported as an internal error
ServerNotFound_500 ==
    [success |-> FALSE, error |-> s_Server \o serverName \o s_not_found,
     statusCode |-> 500]

\* the result for an absent handle (lines 102-109)
ServerNotFound ==
    [success |-> FALSE, error |-> s_Server \o serverName \o s_not_found,
     statusCode |-> 404]

\* variant: the envelope carries a token of its own, not progressToken
\* a token that repeats from one invocation to the next
uuidv4_Repeats(counter) == 1

\* uuidv4() (line 127): a value no earlier invocation was given; `counter`
\* counts the tokens drawn so far
uuidv4(counter) == counter

ToolCallParams_OwnToken(toolName, normalizedArgs, progressToken) ==
    [name |-> toolName, arguments |-> normalizedArgs,
     _meta |-> [progressToken |-> progressToken + 1]]

\* toolCallParams (lines 131-137)
ToolCallParams(toolName, normalizedArgs, progressToken) ==
    [name |-> toolName, arguments |-> normalizedArgs,
     _meta |-> [progressToken |-> progressToken]]

\* variant: the response is left out of the result
Success_NoData(response, progressToken) ==
    [success |-> TRUE, progressToken |-> progressToken]

\* the success result (lines 147-151, 177-181, 231-235)
Success(response, progressToken) ==
    [success |-> TRUE, data |-> response, progressToken |-> progressToken]

\* `Tool execution timed out after ${timeout} seconds`
TimeoutMessage(timeout) ==
    s_Tool_execution_timed_out_after \o NumberToString(timeout) \o s_seconds

\* `Execution timed out after ${timeout} seconds`
CancelReason(timeout) ==
    s_Execution_timed_out_after \o NumberToString(timeout) \o s_seconds

\* variant: the timeout is reported as a gateway timeout
TimeoutFailure_504(toolName, timeout, progressToken) ==
    [success |-> FALSE, error |-> TimeoutMessage(timeout), errorType |-> "timeout",
     toolName |-> toolName, timeout |-> timeout, progressToken |-> progressToken,
     statusCode |-> 504]

\* timeoutError (lines 199-207)
TimeoutFailure(toolName, timeout, progressToken) ==
    [success |-> FALSE, error |-> TimeoutMessage(timeout), errorType |-> "timeout",
     toolName |-> toolName, timeout |-> timeout, progressToken |-> progressToken,
     statusCode |-> 408]

\* error instanceof Error && error.message.includes('timed out') (line 187)
IsTimeoutError(error) == error.isError /\ includes(error.message, s_timed_out)

\* variant: -1 is not singled out and sets a timer like any other number
Branch_NoInfinite(timeout) == IF ~timeout.given THEN "none" ELSE "timed"

\* the deadline branch taken for a timeout argument (lines 140, 143, 152, 227)
Branch(timeout) ==
    IF ~timeout.given THEN "none"
    ELSE IF timeout.secs = -1 THEN "infinite"
    ELSE "timed"

\* Promise.race: the first settlement wins, later ones are ignored
NoRace == [by |-> "nobody"]
\* variant: a later settlement replaces the earlier one
RaceSettle_LastWins(race, by, completion) == [by |-> by, completion |-> completion]

RaceSettle(race, by, completion) ==
    IF race = NoRace THEN [by |-> by, completion |-> completion] ELSE race

\* whether a reaction is registered on the promise of client.callTool when
\* callTool stands at pc: `await` (lines 146, 230) and Promise.race (line
\* 165) register one when the call is issued, and it stays registered
HasReaction(at) == at \in {"awaitCall", "racing", "cancelling", "done"}

\* variant: the timer is left as it is
clearTimeout_Forgotten(t) == t

\* clearTimeout(timeoutId)
clearTimeout(t) == IF t = "armed" THEN "cleared" ELSE t

\* the completion of the inner catch (lines 182-225) once the cancellation
\* attempt has completed with `cancelled`
InnerCatch(error, cancelled, toolName, timeout, progressToken) ==
    IF IsTimeoutError(error)
    THEN IF cancelled.kind = "throw" THEN cancelled
         ELSE Return(TimeoutFailure(toolName, timeout, progressToken))
    ELSE Throw(error)

(***************************************************************************)
(* cancelToolExecution (lines 287-324)                                     *)
(***************************************************************************)
\* cancellationNotification (lines 299-306); the transport is handed its
\* JSON text, which determines and is determined by this object
CancellationNotification(requestId, reason) ==
    [jsonrpc |-> "2.0", method |-> "notifications/cancelled",
     params |-> [requestId |-> requestId, reason |-> reason]]

\* what cancelToolExecution does before it awaits: it throws when the
\* client has no transport or the transport has no send, else it sends
CancelStart(client) ==
    IF client = "noTransport" THEN Throw(NewError(s_no_transport))
    ELSE IF client = "noSend" THEN Throw(NewError(s_no_send))
    ELSE Return("send")

(***************************************************************************)
(* Inputs                                                                  *)
(***************************************************************************)
\* an absent handle, and connected handles by what their transport offers
Clients == {"absent", "noTransport", "noSend", "sendable"}
ToolNames == {"search", "fetch"}
Responses == {"r1", "r2"}

NoTimeout == [given |-> FALSE, secs |-> 0]
Timeouts == {NoTimeout} \cup {[given |-> TRUE, secs |-> s] : s \in -1..MaxTimeout}

k_userId == <<"u", "s", "e", "r", "I", "d">>
k_query == <<"q", "u", "e", "r", "y">>
CallArgs == {EmptyMap, (k_userId :> Null) @@ (k_query :> Val("string", 1))}

s_boom == <<"b", "o", "o", "m">>
\* the words remote error messages are made of: every marker the source
\* looks for, and a word it does not look for
MsgWords ==
    <<s_401, s_Unauthorized, s_invalid_token, s_token_expired, s_404, s_Not_Found,
      s_timed_out, s_boom>>
\* the words that are also combined with one another
PairWords == <<s_401, s_404, s_timed_out, s_boom>>
Messages ==
    {MsgWords[a] : a \in DOMAIN MsgWords}
    \cup {PairWords[p[1]] \o <<" ">> \o PairWords[p[2]] :
            p \in {q \in (DOMAIN PairWords) \X (DOMAIN PairWords) : q[1] < q[2]}}
    \cup {s_401 \o <<" ">> \o s_404 \o <<" ">> \o s_timed_out}
McpCodes == {-32601, -32602, -32603, -32000}
Errors ==
    {NewError(m) : m \in Messages}
    \cup {Err(TRUE, TRUE, c, m) : c \in McpCodes, m \in Messages}
    \cup {Err(FALSE, FALSE, 0, <<>>)}

\* the errors transport.send rejects with
SendErrors == {NewError(s_boom), NewError(s_401), Err(FALSE, FALSE, 0, <<>>)}

Calls == 1..NumCalls

(***************************************************************************)
(* State                                                                   *)
(***************************************************************************)
VARIABLES
    pc,             \* per slot: where the invocation of callTool stands
    input,          \* per slot: the arguments callTool was invoked with
    progressToken,  \* per slot: the token generated by uuidv4 (0: none yet)
    requests,       \* per slot: the toolCallParams handed to client.callTool
    remote,         \* per slot: the promise client.callTool returned
    timer,          \* per slot: the setTimeout timer
    race,           \* per slot: the promise Promise.race returned
    cancels,        \* per slot: the calls of cancelToolExecution (its arguments)
    wire,           \* per slot: the notifications handed to transport.send
    sending,        \* per slot: the promise transport.send returned (its state)
    settled,        \* per slot: the promise callTool returned to its caller
    resolves,       \* per slot: the calls of resolveGlobalVars
    unhandled,      \* the slots whose remote rejection no reaction received
    nextToken,      \* the next value uuidv4 yields (never one it yielded)
    invoked         \* the number of invocations started

\* the state of the invocations of callTool
callVars ==
    <<pc, input, progressToken, requests, remote, timer, race, cancels, wire,
      sending, settled, resolves, unhandled, nextToken, invoked>>

\* normalizeToolArguments, called on its own
VARIABLES
    nArgs,          \* the args the normalizer is called with
    nResult,        \* the map it returned
    nDone           \* whether it has returned

normVars == <<nArgs, nResult, nDone>>

\* listServerTools
VARIABLES
    lPc,            \* where the invocation of listServerTools stands
    lClient,        \* the handle it was invoked with
    lQuery,         \* the promise client.listTools() returned
    lResult         \* the promise listServerTools returned

listVars == <<lPc, lClient, lQuery, lResult>>

\* cancelToolExecution, called on its own
VARIABLES
    cPc,            \* where the invocation of cancelToolExecution stands
    cIn,            \* its arguments
    cWire,          \* the messages handed to transport.send
    cSend,          \* the promise transport.send returned
    cResult         \* the promise cancelToolExecution returned

cancelVars == <<cPc, cIn, cWire, cSend, cResult>>

\* the form's handlers (part_002): handleInstall, handleBuild, handleRun
VARIABLES
    uPc,            \* where the handler invoked stands
    uHandler,       \* which handler was invoked
    uConfig,        \* localConfig and the URLs it was invoked with
    isInstalling,   \* the busy flags, as last set through their setters
    isBuilding,
    isRunning,
    uMessage,       \* the type of the message last set
    uCompleted,     \* whether set...Completed(true) was called
    uConsole,       \* the console: its title, whether shown, its output
    uResponse,      \* handleRun: the response fetch('/api/git') gave
    uReturn         \* the promise the handler returned

uiVars ==
    <<uPc, uHandler, uConfig, isInstalling, isBuilding, isRunning, uMessage,
      uCompleted, uConsole, uResponse, uReturn>>

vars == <<callVars, normVars, listVars, cancelVars, uiVars>>

NoInput ==
    [client |-> "absent", toolName |-> "", args |-> EmptyMap, timeout |-> NoTimeout]

CallInit ==
    /\ pc = [i \in Calls |-> "idle"]
    /\ input = [i \in Calls |-> NoInput]
    /\ progressToken = [i \in Calls |-> 0]
    /\ requests = [i \in Calls |-> <<>>]
    /\ remote = [i \in Calls |-> NoPromise]
    /\ timer = [i \in Calls |-> "none"]
    /\ race = [i \in Calls |-> NoRace]
    /\ cancels = [i \in Calls |-> <<>>]
    /\ wire = [i \in Calls |-> <<>>]
    /\ sending = [i \in Calls |-> "none"]
    /\ settled = [i \in Calls |-> Pending]
    /\ resolves = [i \in Calls |-> 0]
    /\ unhandled = {}
    /\ nextToken = 1
    /\ invoked = 0

\* the inputs a specification draws from
FullInputs ==
    [clients |-> Clients, toolNames |-> ToolNames, args |-> CallArgs,
     timeouts |-> Timeouts, errors |-> Errors, responses |-> Responses,
     sendErrors |-> SendErrors]

(***************************************************************************)
(* callTool, step by step                                                  *)
(***************************************************************************)
\* the caller invokes callTool(client, serverName, toolName, args, timeout):
\* lines 101-114, up to the await of resolveGlobalVars
Invoke(i, In) ==
    /\ pc[i] = "idle"
    /\ invoked < MaxInvocations
    /\ \E client \in In.clients, toolName \in In.toolNames,
          args \in In.args, timeout \in In.timeouts :
          /\ input' = [input EXCEPT ![i] =
                [client |-> client, toolName |-> toolName, args |-> args,
                 timeout |-> timeout]]
          /\ IF client = "absent"
             THEN /\ settled' = [settled EXCEPT ![i] = Settle(Return(ServerNotFound))]
                  /\ pc' = [pc EXCEPT ![i] = "done"]
                  /\ UNCHANGED resolves
             ELSE /\ resolves' = [resolves EXCEPT ![i] = @ + 1]
                  /\ pc' = [pc EXCEPT ![i] = "resolving"]
                  /\ UNCHANGED settled
    /\ invoked' = invoked + 1
    /\ UNCHANGED <<progressToken, requests, remote, timer, race, cancels, wire,
                   sending, unhandled, nextToken,
                   normVars, listVars, cancelVars, uiVars>>

\* resolveGlobalVars rejects: the outer catch classifies the error
ResolveFail(i, In) ==
    /\ pc[i] = "resolving"
    /\ \E error \in In.errors :
          settled' = [settled EXCEPT ![i] = Settle(OuterTry(Throw(error)))]
    /\ pc' = [pc EXCEPT ![i] = "done"]
    /\ UNCHANGED <<input, progressToken, requests, remote, timer, race, cancels,
                   wire, sending, resolves, unhandled, nextToken, invoked,
                   normVars, listVars, cancelVars, uiVars>>

\* resolveGlobalVars fulfils: lines 117-166 / 230, up to the await of the
\* remote call (alone, or raced against the timer)
ResolveOk(i) ==
    /\ pc[i] = "resolving"
    /\ \E resolvedArgs \in {Object(input[i].args), Falsy} :
          LET argsRecord == IF resolvedArgs.falsy THEN EmptyMap ELSE resolvedArgs.map
              normalizedArgs == normalizeToolArguments(Object(argsRecord))
          IN  requests' = [requests EXCEPT ![i] =
                  Append(@, ToolCallParams(input[i].toolName, normalizedArgs,
                                           uuidv4(nextToken)))]
    /\ progressToken' = [progressToken EXCEPT ![i] = uuidv4(nextToken)]
    /\ nextToken' = nextToken + 1
    /\ remote' = [remote EXCEPT ![i] = Pending]
    /\ IF Branch(input[i].timeout) = "timed"
       THEN /\ timer' = [timer EXCEPT ![i] = "armed"]
            /\ pc' = [pc EXCEPT ![i] = "racing"]
       ELSE /\ pc' = [pc EXCEPT ![i] = "awaitCall"]
            /\ UNCHANGED timer
    /\ UNCHANGED <<input, race, cancels, wire, sending, settled, resolves, unhandled,
                   invoked,
                   normVars, listVars, cancelVars, uiVars>>

\* the promise of client.callTool settles with `completion`
RemoteSettles(i, completion) ==
    /\ remote[i] = Pending
    /\ remote' = [remote EXCEPT ![i] = Settle(completion)]
    /\ unhandled' =
            IF completion.kind = "throw" /\ ~HasReaction(pc[i])
            THEN unhandled \cup {i} ELSE unhandled
    /\ IF pc[i] = "awaitCall"
       THEN \* lines 146-151 / 230-235, or the outer catch
            /\ settled' = [settled EXCEPT ![i] = Settle(OuterTry(
                    IF completion.kind = "return"
                    THEN Return(Success(completion.value, progressToken[i]))
                    ELSE completion))]
            /\ pc' = [pc EXCEPT ![i] = "done"]
            /\ UNCHANGED race
       ELSE \* the reaction Promise.race registered (line 166)
            /\ race' = [race EXCEPT ![i] = RaceSettle(@, "call", completion)]
            /\ UNCHANGED <<settled, pc>>
    /\ UNCHANGED <<input, progressToken, requests, timer, cancels, wire, sending,
                   resolves, nextToken, invoked,
                   normVars, listVars, cancelVars, uiVars>>

RemoteFulfils(i, In) ==
    \E response \in In.responses : RemoteSettles(i, Return(response))

RemoteRejects(i, In) ==
    \E error \in In.errors : RemoteSettles(i, Throw(error))

\* the timer fires: controller.abort() runs the abort listener, which
\* rejects the second promise of the race (lines 159-161, 167-171)
\* (the event loop resumes callTool before it runs another callback; the
\* model does not rely on that order and lets the timer fire, and the call
\* settle, between the settlement of the race and RaceContinues)
TimerFires(i) ==
    /\ timer[i] = "armed"
    /\ timer' = [timer EXCEPT ![i] = "fired"]
    /\ race' = [race EXCEPT ![i] =
            RaceSettle(@, "timer", Throw(NewError(TimeoutMessage(input[i].timeout.secs))))]
    /\ UNCHANGED <<pc, input, progressToken, requests, remote, cancels, wire,
                   sending, settled, resolves, unhandled, nextToken, invoked,
                   normVars, listVars, cancelVars, uiVars>>

\* callTool resumes after the race: lines 174-181 when it fulfilled, the
\* inner catch (lines 182-225) when it rejected, up to the await of
\* cancelToolExecution's send
RaceContinues(i) ==
    /\ pc[i] = "racing"
    /\ race[i] # NoRace
    /\ timer' = [timer EXCEPT ![i] = clearTimeout(@)]
    /\ LET completion == race[i].completion
           reason == CancelReason(input[i].timeout.secs)
           start == CancelStart(input[i].client)
           finish(cancelled) ==
               Settle(OuterTry(InnerCatch(completion.error, cancelled,
                   input[i].toolName, input[i].timeout.secs, progressToken[i])))
       IN  IF completion.kind = "return"
           THEN /\ settled' = [settled EXCEPT ![i] =
                        Settle(Return(Success(completion.value, progressToken[i])))]
                /\ pc' = [pc EXCEPT ![i] = "done"]
                /\ UNCHANGED <<cancels, wire, sending>>
           ELSE IF ~IsTimeoutError(completion.error)
           THEN /\ settled' = [settled EXCEPT ![i] = finish(Return(TRUE))]
                /\ pc' = [pc EXCEPT ![i] = "done"]
                /\ UNCHANGED <<cancels, wire, sending>>
           ELSE /\ cancels' = [cancels EXCEPT ![i] =
                        Append(@, [requestId |-> progressToken[i], reason |-> reason])]
                /\ IF start.kind = "throw"
                   THEN /\ settled' = [settled EXCEPT ![i] = finish(CancelTry(start))]
                        /\ pc' = [pc EXCEPT ![i] = "done"]
                        /\ UNCHANGED <<wire, sending>>
                   ELSE /\ wire' = [wire EXCEPT ![i] =
                                Append(@, CancellationNotification(progressToken[i], reason))]
                        /\ sending' = [sending EXCEPT ![i] = "pending"]
                        /\ pc' = [pc EXCEPT ![i] = "cancelling"]
                        /\ UNCHANGED settled
    /\ UNCHANGED <<input, progressToken, requests, remote, race, resolves,
                   unhandled, nextToken, invoked,
                   normVars, listVars, cancelVars, uiVars>>

\* transport.send settles with `completion`: cancelToolExecution returns or
\* rethrows (lines 315-323), callTool logs and returns timeoutError
SendSettles(i, completion) ==
    /\ pc[i] = "cancelling"
    /\ sending' = [sending EXCEPT ![i] = Settle(completion).state]
    /\ settled' = [settled EXCEPT ![i] =
            Settle(OuterTry(InnerCatch(race[i].completion.error, CancelTry(completion),
                input[i].toolName, input[i].timeout.secs, progressToken[i])))]
    /\ pc' = [pc EXCEPT ![i] = "done"]
    /\ UNCHANGED <<input, progressToken, requests, remote, timer, race, cancels,
                   wire, resolves, unhandled, nextToken, invoked,
                   normVars, listVars, cancelVars, uiVars>>

SendFulfils(i) == SendSettles(i, Return(TRUE))

SendRejects(i, In) == \E error \in In.sendErrors : SendSettles(i, Throw(error))

\* the caller is done with the result: the slot is free for a new invocation
Forget(i) ==
    /\ pc[i] = "done"
    /\ invoked < MaxInvocations
    /\ pc' = [pc EXCEPT ![i] = "idle"]
    /\ input' = [input EXCEPT ![i] = NoInput]
    /\ progressToken' = [progressToken EXCEPT ![i] = 0]
    /\ requests' = [requests EXCEPT ![i] = <<>>]
    /\ remote' = [remote EXCEPT ![i] = NoPromise]
    /\ timer' = [timer EXCEPT ![i] = "none"]
    /\ race' = [race EXCEPT ![i] = NoRace]
    /\ cancels' = [cancels EXCEPT ![i] = <<>>]
    /\ wire' = [wire EXCEPT ![i] = <<>>]
    /\ sending' = [sending EXCEPT ![i] = "none"]
    /\ settled' = [settled EXCEPT ![i] = Pending]
    /\ resolves' = [resolves EXCEPT ![i] = 0]
    /\ unhandled' = unhandled \ {i}
    /\ UNCHANGED <<nextToken, invoked,
                   normVars, listVars, cancelVars, uiVars>>

Step(i, In) ==
    \/ Invoke(i, In)
    \/ ResolveFail(i, In)
    \/ ResolveOk(i)
    \/ RemoteFulfils(i, In)
    \/ RemoteRejects(i, In)
    \/ TimerFires(i)
    \/ RaceContinues(i)
    \/ SendFulfils(i)
    \/ SendRejects(i, In)
    \/ Forget(i)

(***************************************************************************)
(* normalizeToolArguments applied to an argument map (lines 15-53)         *)
(***************************************************************************)
k_itemCount == <<"i", "t", "e", "m", "C", "o", "u", "n", "t">>
k_pageLimit == <<"p", "a", "g", "e", "L", "i", "m", "i", "t">>
k_phonenumber == <<"p", "h", "o", "n", "e", "n", "u", "m", "b", "e", "r">>
k_isActive == <<"i", "s", "A", "c", "t", "i", "v", "e">>
k_hasMore == <<"h", "a", "s", "M", "o", "r", "e">>
k_shouldRetry == <<"s", "h", "o", "u", "l", "d", "R", "e", "t", "r", "y">>
k_boolFlag == <<"b", "o", "o", "l", "F", "l", "a", "g">>
k_tags == <<"t", "a", "g", "s">>
k_nameList == <<"n", "a", "m", "e", "L", "i", "s", "t">>
k_cartItems == <<"c", "a", "r", "t", "I", "t", "e", "m", "s">>
k_arrayData == <<"a", "r", "r", "a", "y", "D", "a", "t", "a">>
k_objectData == <<"o", "b", "j", "e", "c", "t", "D", "a", "t", "a">>
k_runOptions == <<"r", "u", "n", "O", "p", "t", "i", "o", "n", "s">>
k_runConfig == <<"r", "u", "n", "C", "o", "n", "f", "i", "g">>
k_appSettings == <<"a", "p", "p", "S", "e", "t", "t", "i", "n", "g", "s">>
k_isCount == <<"i", "s", "C", "o", "u", "n", "t">>
k_isValidId == <<"i", "s", "V", "a", "l", "i", "d", "I", "d">>
k_hasItems == <<"h", "a", "s", "I", "t", "e", "m", "s">>
k_numberList == <<"n", "u", "m", "b", "e", "r", "L", "i", "s", "t">>
k_isList == <<"i", "s", "L", "i", "s", "t">>
k_CountValue == <<"C", "o", "u", "n", "t", "V", "a", "l", "u", "e">>
k_maxCountPerPage == <<"m", "a", "x", "C", "o", "u", "n", "t", "P", "e", "r", "P", "a", "g", "e">>
k_myobjects == <<"m", "y", "o", "b", "j", "e", "c", "t", "s">>
k_island == <<"i", "s", "l", "a", "n", "d">>

\* the parameter names the normalizer is applied to: names matching each
\* rule of lines 29-38, names matching several, and names matching none
Keys ==
    {k_userId, k_query, k_itemCount, k_pageLimit, k_phonenumber, k_isActive, k_hasMore,
     k_shouldRetry, k_boolFlag, k_tags, k_nameList, k_cartItems, k_arrayData,
     k_objectData, k_runOptions, k_runConfig, k_appSettings, k_isCount, k_isValidId,
     k_hasItems, k_numberList, k_isList, k_CountValue, k_maxCountPerPage, k_myobjects,
     k_island}

\* the values an entry holds: the two absent ones, and present ones (the
\* falsy 0 and '' among them)
ArgValues ==
    {Undefined, Null, Val("string", 1), Val("string", 0), Val("number", 0),
     Val("number", 5)}

\* the largest number of entries of a map of several entries
MaxKeys == 2
\* the names such maps are made of, and the values of their entries
SeveralKeys == {k_userId, k_isList, k_query}
SeveralValues == {Null, Val("number", 5)}

NormInputs ==
    {Falsy, Object(EmptyMap)}
    \cup {Object(k :> v) : k \in Keys, v \in ArgValues}
    \cup {Object(m) :
            m \in UNION {[S -> SeveralValues] :
                    S \in {T \in SUBSET SeveralKeys :
                            Cardinality(T) > 1 /\ Cardinality(T) <= MaxKeys}}}

NormIdle == nArgs = Falsy /\ nResult = EmptyMap /\ nDone = FALSE

NormInit == nArgs \in NormInputs /\ nResult = EmptyMap /\ nDone = FALSE

Normalize ==
    /\ ~nDone
    /\ nResult' = normalizeToolArguments(nArgs)
    /\ nDone' = TRUE
    /\ UNCHANGED <<nArgs, callVars, listVars, cancelVars, uiVars>>

(***************************************************************************)
(* listServerTools (lines 58-89)                                           *)
(***************************************************************************)
\* the most tools a server lists
MaxTools == 2

\* a tool as the server lists it: description and inputSchema may be missing
ToolEntries ==
    LET names == {"alpha", "beta"}
        descriptions == {"", "describes"}
        schemas == {"schema"}
    IN  {[name |-> n] : n \in names}
        \cup {[name |-> n, description |-> d] : n \in names, d \in descriptions}
        \cup {[name |-> n, inputSchema |-> x] : n \in names, x \in schemas}
        \cup {[name |-> n, description |-> d, inputSchema |-> x] :
                n \in names, d \in descriptions, x \in schemas}

\* the responses of client.listTools(): with a tools list, or without one
ListResponses ==
    {[meta |-> 0]}
    \cup {[tools |-> ts] : ts \in UNION {[1..n -> ToolEntries] : n \in 0..MaxTools}}

\* the errors client.listTools() rejects with
ListErrors ==
    {NewError(s_Connection_timeout), NewError(s_boom), NewError(s_timed_out),
     NewError(s_boom \o <<" ">> \o s_Connection_timeout \o <<" ">> \o s_boom),
     Err(TRUE, TRUE, -32603, s_Connection_timeout),
     Err(TRUE, TRUE, -32603, s_boom), Err(FALSE, FALSE, 0, <<>>)}

\* an empty inputSchema: {}
EmptySchema == "{}"

\* the tools of a response, adapted (lines 70-74)
AdaptTools(response) ==
    LET listed == IF "tools" \in DOMAIN response THEN response.tools ELSE <<>>
    IN  [n \in 1..Len(listed) |->
            [name |-> listed[n].name,
             description |->
                IF "description" \in DOMAIN listed[n] THEN listed[n].description ELSE "",
             inputSchema |->
                IF "inputSchema" \in DOMAIN listed[n] THEN listed[n].inputSchema
                ELSE EmptySchema]]

\* the result for an absent handle (lines 60-63)
ListNotConnected == [tools |-> <<>>, error |-> s_Server_not_connected]

\* variant: every failure is reported with the prefix
ListFailure_AlwaysPrefixed(error) ==
    [tools |-> <<>>, error |-> s_Failed_to_list_tools \o MessageOf(error)]

\* the result for a failed query (lines 78-88)
ListFailure(error) ==
    LET errorMessage == MessageOf(error)
    IN  [tools |-> <<>>,
         error |-> IF includes(errorMessage, s_Connection_timeout) THEN errorMessage
                   ELSE s_Failed_to_list_tools \o errorMessage]

\* try { ... return { tools } } catch (error) { ... } of listServerTools
ListTry(completion) ==
    IF completion.kind = "throw" THEN Return(ListFailure(completion.error))
    ELSE Return([tools |-> AdaptTools(completion.value)])

ListIdle ==
    lPc = "idle" /\ lClient = "absent" /\ lQuery = NoPromise /\ lResult = Pending

\* listServerTools(client, serverName) up to its await (lines 59-67)
ListInvoke ==
    /\ lPc = "idle"
    /\ \E client \in {"absent", "connected"} :
          /\ lClient' = client
          /\ IF client = "absent"
             THEN /\ lResult' = Settle(Return(ListNotConnected))
                  /\ lPc' = "done"
                  /\ UNCHANGED lQuery
             ELSE /\ lQuery' = Pending
                  /\ lPc' = "querying"
                  /\ UNCHANGED lResult
    /\ UNCHANGED <<callVars, normVars, cancelVars, uiVars>>

\* client.listTools() settles (lines 67-88)
ListSettles(completion) ==
    /\ lPc = "querying"
    /\ lQuery' = Settle(completion)
    /\ lResult' = Settle(ListTry(completion))
    /\ lPc' = "done"
    /\ UNCHANGED <<lClient, callVars, normVars, cancelVars, uiVars>>

ListFulfils == \E response \in ListResponses : ListSettles(Return(response))

ListRejects == \E error \in ListErrors : ListSettles(Throw(error))

(***************************************************************************)
(* cancelToolExecution called on its own (lines 287-324)                   *)
(***************************************************************************)
\* variant: the catch logs the failure and does not rethrow it
CancelCatch_Swallows(completion) == Return(TRUE)

\* catch (error) { log.error(...); throw error } (lines 320-323)
CancelCatch(completion) == completion

RequestIds == 1..(MaxInvocations + 2)
Reasons == {CancelReason(t) : t \in 0..MaxTimeout} \cup {s_boom, <<>>}
NoCancelInput == [client |-> "noTransport", requestId |-> 0, reason |-> <<>>]

CancelIdle ==
    /\ cPc = "idle" /\ cIn = NoCancelInput /\ cWire = <<>>
    /\ cSend = NoPromise /\ cResult = Pending

\* cancelToolExecution(client, requestId, reason) up to its await
CancelInvoke ==
    /\ cPc = "idle"
    /\ \E client \in Clients \ {"absent"}, requestId \in RequestIds,
          reason \in Reasons :
          /\ cIn' = [client |-> client, requestId |-> requestId, reason |-> reason]
          /\ IF CancelStart(client).kind = "throw"
             THEN /\ cResult' = Settle(CancelCatch(CancelStart(client)))
                  /\ cPc' = "done"
                  /\ UNCHANGED <<cWire, cSend>>
             ELSE /\ cWire' = Append(cWire, CancellationNotification(requestId, reason))
                  /\ cSend' = Pending
                  /\ cPc' = "sending"
                  /\ UNCHANGED cResult
    /\ UNCHANGED <<callVars, normVars, listVars, uiVars>>

\* transport.send settles (lines 315-323)
CancelSendSettles(completion) ==
    /\ cPc = "sending"
    /\ cSend' = Settle(completion)
    /\ cResult' = Settle(CancelCatch(completion))
    /\ cPc' = "done"
    /\ UNCHANGED <<cIn, cWire, callVars, normVars, listVars, uiVars>>

CancelSendFulfils == CancelSendSettles(Return(TRUE))

CancelSendRejects == \E error \in SendErrors : CancelSendSettles(Throw(error))

(***************************************************************************)
(* The form's handlers (part_002).  A handler is given localConfig, the    *)
(* URLs and the setters of the form's state; the model keeps what the      *)
(* setters were last called with.  A field of localConfig or a URL is kept *)
(* as whether it is set (truthy).                                          *)
(***************************************************************************)
Transports == {"stdio", "websocket", "sse", "streamable"}

UiConfigs ==
    [name : BOOLEAN, transport : Transports, command : BOOLEAN,
     websocketUrl : BOOLEAN, serverUrl : BOOLEAN]

NoConfig ==
    [name |-> FALSE, transport |-> "stdio", command |-> FALSE,
     websocketUrl |-> FALSE, serverUrl |-> FALSE]

\* isStdioConfig(localConfig)
isStdioConfig(localConfig) == localConfig.transport = "stdio"

\* what installDependencies and buildServer resolve with: success, and
\* whether there is output
CommandResults == [success : BOOLEAN, output : BOOLEAN]

\* the values an awaited call of a handler rejects with: an Error named
\* AbortError, another Error (with or without a message), a non-Error
UiErrors ==
    {[isError |-> TRUE, name |-> "AbortError", message |-> TRUE],
     [isError |-> TRUE, name |-> "Error", message |-> TRUE],
     [isError |-> TRUE, name |-> "Error", message |-> FALSE],
     [isError |-> FALSE, name |-> "", message |-> FALSE]}

\* the responses of fetch: status, and ok for a status in 200..299
HttpResponses == {[status |-> 200, ok |-> TRUE], [status |-> 401, ok |-> FALSE],
                  [status |-> 500, ok |-> FALSE]}

\* the bodies response.json() resolves with for POST /api/git
RunBodies == [commandOutput : BOOLEAN]

\* testHttpConnection (lines 584-641), from the completion of its fetch:
\* it resolves in every case
testHttpConnection(fetched) ==
    IF fetched.kind = "return"
    THEN IF fetched.value.status = 401
         THEN [success |-> FALSE, message |-> "requires authentication",
               details |-> TRUE]
         ELSE [success |-> fetched.value.ok,
               message |-> IF fetched.value.ok THEN "Connection successful"
                           ELSE "Server responded with error",
               details |-> TRUE]
    ELSE IF fetched.error.isError
         THEN IF fetched.error.name = "AbortError"
              THEN [success |-> FALSE, message |-> "Connection timeout",
                    details |-> TRUE]
              ELSE [success |-> FALSE, message |-> "Connection failed",
                    details |-> fetched.error.message]
         ELSE [success |-> FALSE, message |-> "Connection failed", details |-> TRUE]

NoConsole == [title |-> "", visible |-> FALSE, output |-> <<>>]

\* the console after a command: its title, shown, and the command's output
\* or a note that there was none
CommandConsole(title, result) ==
    [title |-> title, visible |-> TRUE,
     output |-> <<IF result.output THEN "output" ELSE "no output">>]

UiIdle ==
    /\ uPc = "idle" /\ uHandler = "none" /\ uConfig = NoConfig
    /\ isInstalling = FALSE /\ isBuilding = FALSE /\ isRunning = FALSE
    /\ uMessage = "none" /\ uCompleted = FALSE /\ uConsole = NoConsole
    /\ uResponse = NoPromise /\ uReturn = Pending

\* handleInstall up to its await (lines 468-495)
handleInstall ==
    /\ uPc = "idle"
    /\ uHandler' = "install"
    /\ \E localConfig \in UiConfigs :
          /\ uConfig' = localConfig
          /\ IF ~localConfig.name
             THEN /\ uMessage' = "error"
                  /\ uReturn' = Settle(Return(TRUE))
                  /\ uPc' = "done"
                  /\ UNCHANGED isInstalling
             ELSE /\ isInstalling' = TRUE
                  /\ uMessage' = "success"
                  /\ uPc' = "installing"
                  /\ UNCHANGED uReturn
    /\ UNCHANGED <<isBuilding, isRunning, uCompleted, uConsole, uResponse,
                   callVars, normVars, listVars, cancelVars>>

\* installDependencies settles (lines 495-523): a rejection leaves
\* handleInstall at its await, and the rest of the body is not run
InstallSettles(completion) ==
    /\ uPc = "installing"
    /\ IF completion.kind = "throw"
       THEN /\ uReturn' = Settle(completion)
            /\ UNCHANGED <<isInstalling, uMessage, uCompleted, uConsole>>
       ELSE /\ uConsole' = CommandConsole("Install Dependencies Output",
                                          completion.value)
            /\ uCompleted' = (uCompleted \/ completion.value.success)
            /\ uMessage' = IF completion.value.success THEN "success" ELSE "error"
            /\ isInstalling' = FALSE
            /\ uReturn' = Settle(Return(TRUE))
    /\ uPc' = "done"
    /\ UNCHANGED <<uHandler, uConfig, isBuilding, isRunning, uResponse,
                   callVars, normVars, listVars, cancelVars>>

InstallFulfils == \E result \in CommandResults : InstallSettles(Return(result))

InstallRejects == \E error \in UiErrors : InstallSettles(Throw(error))

\* handleBuild up to its await (lines 525-553)
handleBuild ==
    /\ uPc = "idle"
    /\ uHandler' = "build"
    /\ \E localConfig \in UiConfigs :
          /\ uConfig' = localConfig
          /\ IF ~localConfig.name
             THEN /\ uMessage' = "error"
                  /\ uReturn' = Settle(Return(TRUE))
                  /\ uPc' = "done"
                  /\ UNCHANGED isBuilding
             ELSE /\ isBuilding' = TRUE
                  /\ uMessage' = "success"
                  /\ uPc' = "building"
                  /\ UNCHANGED uReturn
    /\ UNCHANGED <<isInstalling, isRunning, uCompleted, uConsole, uResponse,
                   callVars, normVars, listVars, cancelVars>>

\* buildServer settles (lines 553-581)
BuildSettles(completion) ==
    /\ uPc = "building"
    /\ IF completion.kind = "throw"
       THEN /\ uReturn' = Settle(completion)
            /\ UNCHANGED <<isBuilding, uMessage, uCompleted, uConsole>>
       ELSE /\ uConsole' = CommandConsole("Build Server Output", completion.value)
            /\ uCompleted' = (uCompleted \/ completion.value.success)
            /\ uMessage' = IF completion.value.success THEN "success" ELSE "error"
            /\ isBuilding' = FALSE
            /\ uReturn' = Settle(Return(TRUE))
    /\ uPc' = "done"
    /\ UNCHANGED <<uHandler, uConfig, isInstalling, isRunning, uResponse,
                   callVars, normVars, listVars, cancelVars>>

BuildFulfils == \E result \in CommandResults : BuildSettles(Return(result))

BuildRejects == \E error \in UiErrors : BuildSettles(Throw(error))

\* the console as handleRun sets it before it tests or starts anything
\* (lines 688-690)
RunConsole == [title |-> "Test Server Connection", visible |-> TRUE,
               output |-> <<"Testing server connection">>]

\* setConsoleOutput(prev => prev + line)
ConsoleAppend(console, lines) == [console EXCEPT !.output = @ \o lines]

\* handleRun up to its first await, or to its end (lines 643-701, 736-759)
handleRun ==
    /\ uPc = "idle"
    /\ uHandler' = "run"
    /\ \E localConfig \in UiConfigs :
          /\ uConfig' = localConfig
          /\ IF \/ ~localConfig.name
                \/ (isStdioConfig(localConfig) /\ ~localConfig.command)
                \/ (localConfig.transport = "websocket" /\ ~localConfig.websocketUrl)
                \/ (localConfig.transport \in {"sse", "streamable"}
                    /\ ~localConfig.serverUrl)
             THEN /\ uMessage' = "error"
                  /\ uReturn' = Settle(Return(TRUE))
                  /\ uPc' = "done"
                  /\ UNCHANGED <<isRunning, uConsole, uCompleted>>
             ELSE IF localConfig.transport \in {"sse", "streamable"}
             THEN /\ isRunning' = TRUE
                  /\ uMessage' = "success"
                  /\ uConsole' = ConsoleAppend(RunConsole, <<"Attempting to connect">>)
                  /\ uPc' = "testing"
                  /\ UNCHANGED <<uCompleted, uReturn>>
             ELSE IF localConfig.transport = "websocket"
             THEN \* try { ... } finally { setIsRunning(false) } (lines 737-750)
                  /\ isRunning' = FALSE
                  /\ uConsole' = ConsoleAppend(RunConsole,
                        <<"WebSocket URL", "not yet implemented", "verify manually">>)
                  /\ uCompleted' = TRUE
                  /\ uMessage' = "warning"
                  /\ uReturn' = Settle(Return(TRUE))
                  /\ uPc' = "done"
             ELSE /\ isRunning' = TRUE
                  /\ uMessage' = "success"
                  /\ uConsole' = ConsoleAppend(RunConsole, <<"Starting server process">>)
                  /\ uPc' = "fetching"
                  /\ UNCHANGED <<uCompleted, uReturn>>
    /\ UNCHANGED <<isInstalling, isBuilding, uResponse,
                   callVars, normVars, listVars, cancelVars>>

\* the fetch of testHttpConnection settles, testHttpConnection resolves and
\* handleRun goes on to its end (lines 701-732); the catch of lines 722-728
\* has nothing to catch, the finally runs
RunTestSettles(fetched) ==
    /\ uPc = "testing"
    /\ LET testResult == testHttpConnection(fetched)
       IN  /\ uConsole' = ConsoleAppend(uConsole,
                  <<testResult.message>>
                  \o (IF testResult.details THEN <<"Details">> ELSE <<>>)
                  \o <<IF testResult.success THEN "passed" ELSE "failed">>)
           /\ uCompleted' = (uCompleted \/ testResult.success)
           /\ uMessage' = IF testResult.success THEN "success" ELSE "error"
    /\ isRunning' = FALSE
    /\ uReturn' = Settle(Return(TRUE))
    /\ uPc' = "done"
    /\ UNCHANGED <<uHandler, uConfig, isInstalling, isBuilding, uResponse,
                   callVars, normVars, listVars, cancelVars>>

RunTestFulfils == \E response \in HttpResponses : RunTestSettles(Return(response))

RunTestRejects == \E error \in UiErrors : RunTestSettles(Throw(error))

\* handleRun's catch and finally for the stdio transport (lines 790-807):
\* the error is written to the console, the flag is reset, handleRun returns
RunCatchFinally ==
    /\ uConsole' = ConsoleAppend(uConsole, <<"Error">>)
    /\ isRunning' = FALSE
    /\ uReturn' = Settle(Return(TRUE))
    /\ uPc' = "done"
    /\ UNCHANGED <<uMessage, uCompleted>>

\* fetch('/api/git') settles (lines 759-773)
RunFetchSettles(completion) ==
    /\ uPc = "fetching"
    /\ IF completion.kind = "throw"
       THEN RunCatchFinally /\ UNCHANGED uResponse
       ELSE /\ uResponse' = Settle(completion)
            /\ uPc' = "readingJson"
            /\ UNCHANGED <<isRunning, uConsole, uMessage, uCompleted, uReturn>>
    /\ UNCHANGED <<uHandler, uConfig, isInstalling, isBuilding,
                   callVars, normVars, listVars, cancelVars>>

RunFetchFulfils == \E response \in HttpResponses : RunFetchSettles(Return(response))

RunFetchRejects == \E error \in UiErrors : RunFetchSettles(Throw(error))

\* response.json() settles (lines 773-807)
RunJsonSettles(completion) ==
    /\ uPc = "readingJson"
    /\ IF completion.kind = "throw" \/ ~uResponse.value.ok
       THEN RunCatchFinally
       ELSE /\ uConsole' = ConsoleAppend(uConsole,
                  <<IF completion.value.commandOutput THEN "commandOutput"
                    ELSE "no output">>)
            /\ uCompleted' = TRUE
            /\ uMessage' = "success"
            /\ isRunning' = FALSE
            /\ uReturn' = Settle(Return(TRUE))
            /\ uPc' = "done"
    /\ UNCHANGED <<uHandler, uConfig, isInstalling, isBuilding, uResponse,
                   callVars, normVars, listVars, cancelVars>>

RunJsonFulfils == \E body \in RunBodies : RunJsonSettles(Return(body))

RunJsonRejects == \E error \in UiErrors : RunJsonSettles(Throw(error))

(***************************************************************************)
(* Specifications                                                          *)
(***************************************************************************)
Init == CallInit /\ NormIdle /\ ListIdle /\ CancelIdle /\ UiIdle

\* one invocation at a time, every input
Next == Step(1, FullInputs)

Spec == Init /\ [][Next]_vars

(***************************************************************************)
(* Liveness.  The event loop runs a due timer callback and resumes an      *)
(* async function whose awaited promise has settled: TimerFires and        *)
(* RaceContinues are weakly fair.  Whether transport.send settles is up to *)
(* the transport: LiveSpec assumes it does, LiveSpecSendMayHang does not.  *)
(***************************************************************************)
LiveInputs ==
    [clients |-> Clients, toolNames |-> {"search"}, args |-> {EmptyMap},
     timeouts |-> Timeouts, responses |-> {"r1"},
     errors |-> {NewError(s_boom), NewError(s_timed_out), NewError(s_401)},
     sendErrors |-> {NewError(s_boom)}]

NextLive == Step(1, LiveInputs)

LiveSpecSendMayHang ==
    /\ Init
    /\ [][NextLive]_vars
    /\ WF_vars(TimerFires(1))
    /\ WF_vars(RaceContinues(1))

LiveSpec ==
    /\ LiveSpecSendMayHang
    /\ WF_vars(SendFulfils(1) \/ SendRejects(1, LiveInputs))

\* several invocations of callTool in flight at once, on the same tool and
\* arguments: the caller may invoke a slot while others are running, and the
\* event loop interleaves their continuations
ConcInputs ==
    [clients |-> {"sendable"}, toolNames |-> {"search"},
     args |-> {EmptyMap},
     timeouts |-> {NoTimeout, [given |-> TRUE, secs |-> -1],
                   [given |-> TRUE, secs |-> 1]},
     responses |-> {"r1"},
     errors |-> {NewError(s_401), NewError(s_timed_out)},
     sendErrors |-> {NewError(s_boom)}]

NextConc == \E i \in Calls : Step(i, ConcInputs)

ConcSpec == Init /\ [][NextConc]_vars

\* one handler of the form, invoked once
UiNext ==
    \/ handleInstall \/ InstallFulfils \/ InstallRejects
    \/ handleBuild \/ BuildFulfils \/ BuildRejects
    \/ handleRun \/ RunTestFulfils \/ RunTestRejects
    \/ RunFetchFulfils \/ RunFetchRejects
    \/ RunJsonFulfils \/ RunJsonRejects

UiSpec == Init /\ [][UiNext]_vars

\* the normalizer applied to one argument map
NormSpecInit == CallInit /\ NormInit /\ ListIdle /\ CancelIdle /\ UiIdle

NormNext == Normalize

NormSpec == NormSpecInit /\ [][NormNext]_vars

\* one invocation of listServerTools
ListNext == ListInvoke \/ ListFulfils \/ ListRejects

ListSpec == Init /\ [][ListNext]_vars

\* one invocation of cancelToolExecution
CancelNext == CancelInvoke \/ CancelSendFulfils \/ CancelSendRejects

CancelSpec == Init /\ [][CancelNext]_vars

(***************************************************************************)
(* Vocabulary of the properties                                            *)
(***************************************************************************)
Returned(i) == pc[i] = "done" /\ settled[i].state = "fulfilled"
Result(i) == settled[i].value
Has(r, f) == f \in DOMAIN r

\* r is a local timeout Failure
IsTimeoutResult(r) ==
    /\ r.success = FALSE
    /\ Has(r, "errorType") /\ r.errorType = "timeout"
    /\ Has(r, "statusCode") /\ r.statusCode = 408

\* the timer settled the race of slot i (it fired before the call settled)
TimerWon(i) == race[i].by = "timer"

\* the invocation of slot i was given a positive timeout
PositiveTimeout(i) == input[i].timeout.given /\ input[i].timeout.secs > 0

\* callTool of slot i saw its remote call fail: the awaited call rejected,
\* or the call rejected and thereby settled the race
SawCallFail(i) ==
    /\ remote[i].state = "rejected"
    /\ Branch(input[i].timeout) = "timed" => race[i].by = "call"

\* C1: with a positive timeout D, once the timer has fired before the call
\* settled, callTool eventually returns success=false, errorType "timeout",
\* statusCode 408 and a message naming D (timer, continuation and
\* cancellation send being fair)
C1_TimeoutEventuallyReturned ==
    \A i \in Calls :
        (PositiveTimeout(i) /\ TimerWon(i) /\ pc[i] = "racing")
        ~> (/\ Returned(i)
            /\ IsTimeoutResult(Result(i))
            /\ Result(i).timeout = input[i].timeout.secs
            /\ includes(Result(i).error, NumberToString(input[i].timeout.secs)))

C1_Witness ==
    \E i \in Calls :
        /\ PositiveTimeout(i) /\ TimerWon(i) /\ Returned(i)
        /\ remote[i] = Pending
        /\ Len(wire[i]) = 1
        /\ IsTimeoutResult(Result(i))

\* C2: whenever callTool has returned a timeout Failure, cancelToolExecution
\* was called exactly once, and the progressToken of the envelope sent to
\* the server, the requestId of the cancellation and the progressToken of
\* the Failure are one value
C2_TokensAgree ==
    \A i \in Calls :
        (Returned(i) /\ IsTimeoutResult(Result(i))) =>
            /\ Len(cancels[i]) = 1
            /\ Len(requests[i]) = 1
            /\ Len(wire[i]) <= 1
            /\ requests[i][1]._meta.progressToken = Result(i).progressToken
            /\ cancels[i][1].requestId = Result(i).progressToken
            /\ \A n \in DOMAIN wire[i] :
                  wire[i][n].params.requestId = Result(i).progressToken

C2_Witness ==
    \E i \in Calls :
        /\ Returned(i) /\ IsTimeoutResult(Result(i))
        /\ Len(wire[i]) = 1
        /\ Result(i).progressToken = 2

\* C3: callTool never rejects: whatever resolveGlobalVars, the remote call
\* and the cancellation send do, its promise is not rejected, and once
\* settled it holds a result with a boolean success
C3_NeverThrows ==
    \A i \in Calls :
        /\ settled[i].state # "rejected"
        /\ pc[i] = "done" =>
              /\ settled[i].state = "fulfilled"
              /\ Has(Result(i), "success")
              /\ Result(i).success \in BOOLEAN

C3_Witness ==
    \E i \in Calls :
        /\ Returned(i)
        /\ input[i].client = "noTransport"
        /\ Len(cancels[i]) = 1
        /\ remote[i].state = "rejected"

\* C4 (as claimed): once the timer has fired before the call settled,
\* callTool eventually returns, whether or not the cancellation send settles
C4_AlwaysResolves ==
    \A i \in Calls : (TimerWon(i) /\ pc[i] = "racing") ~> Returned(i)

\* C5: callTool with an absent handle returns success=false, statusCode 404,
\* having resolved no arguments, issued no call request, created no timer
\* and sent no cancellation
C5_AbsentHandle ==
    \A i \in Calls :
        (pc[i] # "idle" /\ input[i].client = "absent") =>
            /\ Returned(i)
            /\ Result(i).success = FALSE
            /\ Result(i).statusCode = 404
            /\ resolves[i] = 0
            /\ requests[i] = <<>>
            /\ remote[i] = NoPromise
            /\ timer[i] = "none"
            /\ cancels[i] = <<>>
            /\ wire[i] = <<>>

C5_Witness ==
    \E i \in Calls :
        /\ Returned(i) /\ input[i].client = "absent"
        /\ PositiveTimeout(i)
        /\ input[i].args # EmptyMap

\* C6 (as claimed): callTool returns a timeout Failure, or attempts a
\* cancellation, only if the timer fired before the remote call settled
C6_TimeoutOnlyWhenTimerWon ==
    \A i \in Calls :
        (Returned(i) /\ (IsTimeoutResult(Result(i)) \/ cancels[i] # <<>>))
            => TimerWon(i)

\* C7 (as claimed): in every deadline branch, a remote call failing with a
\* message that contains "401" is returned with statusCode 401 and
\* requiresAuthentication
C7_401Wins ==
    \A i \in Calls :
        (/\ Returned(i) /\ SawCallFail(i)
         /\ remote[i].reason.isError
         /\ includes(remote[i].reason.message, s_401)) =>
            /\ Result(i).statusCode = 401
            /\ Has(Result(i), "requiresAuthentication")
            /\ Result(i).requiresAuthentication

\* C8 (as claimed): a remote failure whose message contains "404" or
\* "Not Found" and no authentication marker is returned with statusCode
\* 404 and the endpoint-not-found notice, McpError or not
C8_404FirstMatch ==
    \A i \in Calls :
        (/\ Returned(i) /\ SawCallFail(i)
         /\ IsNotFound(MessageOf(remote[i].reason))
         /\ ~IsAuthError(MessageOf(remote[i].reason))) =>
            /\ Result(i).statusCode = 404
            /\ includes(Result(i).error, s_endpoint_not_found)

C10_LateSettlementDiscarded ==
    [][\A i \in Calls :
        /\ (TimerWon(i) /\ pc'[i] # "idle") => race'[i] = race[i]
        /\ (TimerWon(i) /\ pc[i] # "done" /\ pc'[i] = "done") =>
              /\ settled'[i].state = "fulfilled"
              /\ IsTimeoutResult(settled'[i].value)
        /\ (pc[i] = "done" /\ pc'[i] = "done") => settled'[i] = settled[i]
        /\ unhandled' = {}]_vars

C10_Witness ==
    \E i \in Calls :
        /\ TimerWon(i) /\ Returned(i)
        /\ remote[i].state = "rejected"
        /\ Len(wire[i]) = 1
        /\ IsTimeoutResult(Result(i))

\* everything callTool holds for the invocation of slot i
Slot(i) ==
    <<pc[i], input[i], progressToken[i], requests[i], remote[i], timer[i],
      race[i], cancels[i], wire[i], sending[i], settled[i], resolves[i]>>

\* slot i has drawn its token and has not been forgotten
HasToken(i) == progressToken[i] # 0

\* C11: two invocations of callTool in flight at once (same handle, tool and
\* arguments included) hold distinct progressTokens; a step in which the
\* timer of one of them fires, or its cancellation is issued, sent or
\* settled, changes nothing of any other invocation (its race, its result);
\* and every cancellation of an invocation, and every notification put on
\* the transport for it, carries that invocation's token and no other's
C11_ConcurrentCallsIndependent ==
    [][/\ \A i, j \in Calls :
              (i # j /\ HasToken(i)' /\ HasToken(j)') =>
                  progressToken'[i] # progressToken'[j]
       /\ \A i \in Calls :
              (\/ timer'[i] # timer[i] \/ cancels'[i] # cancels[i]
               \/ wire'[i] # wire[i] \/ sending'[i] # sending[i]) =>
                  \A j \in Calls \ {i} : Slot(j)' = Slot(j)
       /\ \A i \in Calls :
              /\ \A k \in 1..Len(cancels'[i]) :
                     cancels'[i][k].requestId = progressToken'[i]
              /\ \A k \in 1..Len(wire'[i]) :
                     /\ wire'[i][k].params.requestId = progressToken'[i]
                     /\ \A j \in Calls \ {i} :
                            wire'[i][k].params.requestId # progressToken'[j]]_vars

\* one invocation has timed out and sent its cancellation while another,
\* given the same handle, tool, arguments and timeout, is still racing
C11_Witness ==
    \E i, j \in Calls :
        /\ i # j /\ input[i] = input[j]
        /\ TimerWon(i) /\ Returned(i) /\ IsTimeoutResult(Result(i))
        /\ Len(wire[i]) = 1
        /\ pc[j] = "racing" /\ timer[j] = "armed" /\ race[j] = NoRace

\* callTool of slot i called cancelToolExecution (line 192)
CancelAttempted(i) == Len(cancels[i]) > 0

\* the notification of slot i could not be sent: no transport, no send on
\* the transport, or send rejected
NotSent(i) ==
    \/ input[i].client \in {"noTransport", "noSend"}
    \/ sending[i] = "rejected"

\* C12: once callTool has attempted the cancellation and returned, its
\* result is the timeout Failure (success=false, errorType "timeout",
\* statusCode 408, the call's token) whatever became of the notification:
\* sent, not sendable for want of a transport or of send, or rejected by send
C12_CancelFailureSwallowed ==
    \A i \in Calls :
        (Returned(i) /\ CancelAttempted(i)) =>
            /\ sending[i] \in {"none", "fulfilled", "rejected"}
            /\ (sending[i] = "none") = (input[i].client \in {"noTransport", "noSend"})
            /\ Result(i) =
                  [success |-> FALSE,
                   error |-> TimeoutMessage(input[i].timeout.secs),
                   errorType |-> "timeout",
                   toolName |-> input[i].toolName,
                   timeout |-> input[i].timeout.secs,
                   progressToken |-> progressToken[i],
                   statusCode |-> 408]

\* the timer won, send rejected, and the timeout Failure was returned
C12_Witness ==
    \E i \in Calls :
        /\ Returned(i) /\ CancelAttempted(i) /\ TimerWon(i)
        /\ sending[i] = "rejected" /\ NotSent(i)
        /\ Result(i).statusCode = 408
        /\ Result(i).progressToken = progressToken[i]

\* the same with a handle that has no transport: nothing was put on the wire
C12_WitnessNoTransport ==
    \E i \in Calls :
        /\ Returned(i) /\ CancelAttempted(i) /\ TimerWon(i)
        /\ input[i].client = "noTransport" /\ wire[i] = <<>>
        /\ Result(i).statusCode = 408

\* a record without its progressToken field
WithoutToken(r) == [f \in DOMAIN r \ {"progressToken"} |-> r[f]]

\* a call request without the token of its envelope
WithoutMeta(request) == [f \in DOMAIN request \ {"_meta"} |-> request[f]]

\* slots i and j were invoked alike, i with no timeout and j with -1, and
\* their remote calls settled alike
Twins(i, j) ==
    /\ i # j
    /\ ~input[i].timeout.given
    /\ input[j].timeout.given /\ input[j].timeout.secs = -1
    /\ input[i].client = input[j].client
    /\ input[i].toolName = input[j].toolName
    /\ input[i].args = input[j].args
    /\ remote[i] \notin {NoPromise, Pending}
    /\ remote[i] = remote[j]

\* C13: callTool with timeout absent and callTool with timeout -1, on the
\* same handle, tool and arguments and with the remote call settling the
\* same way, return results equal in every field but progressToken, and
\* each has issued one call request (the same but for the token), created
\* no timer and attempted no cancellation
C13_MinusOneLikeAbsent ==
    \A i, j \in Calls :
        (Twins(i, j) /\ Returned(i) /\ Returned(j)) =>
            /\ WithoutToken(Result(i)) = WithoutToken(Result(j))
            /\ DOMAIN Result(i) = DOMAIN Result(j)
            /\ Len(requests[i]) = 1 /\ Len(requests[j]) = 1
            /\ WithoutMeta(requests[i][1]) = WithoutMeta(requests[j][1])
            /\ timer[i] = "none" /\ timer[j] = "none"
            /\ race[i] = NoRace /\ race[j] = NoRace
            /\ cancels[i] = <<>> /\ cancels[j] = <<>>
            /\ wire[i] = <<>> /\ wire[j] = <<>>

\* twins whose remote calls failed with a message containing "timed out":
\* neither reports a timeout
C13_Witness ==
    \E i, j \in Calls :
        /\ Twins(i, j) /\ Returned(i) /\ Returned(j)
        /\ remote[i].state = "rejected"
        /\ includes(remote[i].reason.message, s_timed_out)
        /\ Result(i).success = FALSE /\ Result(j).success = FALSE
        /\ ~Has(Result(j), "errorType")
        /\ progressToken[i] # progressToken[j]

\* twins whose remote calls fulfilled
C13_WitnessSuccess ==
    \E i, j \in Calls :
        /\ Twins(i, j) /\ Returned(i) /\ Returned(j)
        /\ Result(i).success /\ Result(j).success

\* C14: a timer, a cancellation attempt and a timeout Failure exist only
\* for an invocation given a positive timeout; with timeout absent or -1
\* there is none of them
C14_TimerOnlyForPositive ==
    \A i \in Calls :
        (\/ timer[i] # "none"
         \/ CancelAttempted(i)
         \/ (Returned(i) /\ IsTimeoutResult(Result(i)))) => PositiveTimeout(i)

\* the part of C14 about timeout absent and -1
C14_NoTimerWithoutDeadline ==
    \A i \in Calls :
        (pc[i] # "idle" /\ Branch(input[i].timeout) \in {"none", "infinite"}) =>
            /\ timer[i] = "none" /\ race[i] = NoRace
            /\ ~CancelAttempted(i) /\ wire[i] = <<>>
            /\ Returned(i) => ~IsTimeoutResult(Result(i))

\* callTool of slot i saw its remote call succeed: the awaited call
\* fulfilled, or the call fulfilled and thereby settled the race
SawCallSucceed(i) ==
    /\ remote[i].state = "fulfilled"
    /\ Branch(input[i].timeout) = "timed" => race[i].by = "call"

\* C15: in each deadline branch, when the remote call fulfils (before the
\* timer fires, where there is one) callTool returns success=true, data =
\* the remote response, progressToken = the token it put in the envelope of
\* its call request, and attempts no cancellation
C15_SuccessReturned ==
    \A i \in Calls :
        (Returned(i) /\ SawCallSucceed(i)) =>
            /\ Len(requests[i]) = 1
            /\ Result(i) =
                  [success |-> TRUE,
                   data |-> remote[i].value,
                   progressToken |-> requests[i][1]._meta.progressToken]
            /\ ~CancelAttempted(i) /\ wire[i] = <<>>

\* a success in the timed branch, the timer cleared
C15_Witness ==
    \E i \in Calls :
        /\ Returned(i) /\ SawCallSucceed(i)
        /\ PositiveTimeout(i) /\ timer[i] = "cleared"
        /\ Result(i).success /\ Result(i).data \in Responses

\* successes in the two branches without a timer
C15_WitnessAbsent ==
    \E i \in Calls :
        Returned(i) /\ SawCallSucceed(i) /\ Branch(input[i].timeout) = "none"

C15_WitnessInfinite ==
    \E i \in Calls :
        Returned(i) /\ SawCallSucceed(i) /\ Branch(input[i].timeout) = "infinite"

\* the values the normalizer puts in place of an absent one
Zero == Val("number", 0)
False == Val("boolean", 0)
EmptySequence == Val("array", 0)
EmptyMapping == Val("object", 0)
EmptyString == Val("string", 0)

\* the naming conventions (a) to (d), each on its own
LooksNumber(key) ==
    \/ includes(key, s_number) \/ endsWith(key, s_Count)
    \/ endsWith(key, s_Id) \/ endsWith(key, s_Limit)
LooksBoolean(key) ==
    \/ includes(key, s_bool) \/ startsWith(key, s_is)
    \/ startsWith(key, s_has) \/ startsWith(key, s_should)
LooksArray(key) ==
    \/ includes(key, s_array) \/ endsWith(key, s_s)
    \/ endsWith(key, s_List) \/ endsWith(key, s_Items)
LooksObject(key) ==
    \/ includes(key, s_object) \/ endsWith(key, s_Options)
    \/ endsWith(key, s_Config) \/ endsWith(key, s_Settings)

\* the normalizer was given a map and has returned
Normalized == nDone /\ ~nArgs.falsy

\* C16: normalizeToolArguments returns a map with exactly the keys of its
\* input; an entry whose value is present is unchanged; an entry whose value
\* is null or undefined holds the default of the first convention its key
\* matches, in the order number (0), boolean (false), array ([]), object
\* ({}), and the empty string when it matches none
C16_DefaultsByFirstMatch ==
    Normalized =>
        /\ DOMAIN nResult = DOMAIN nArgs.map
        /\ \A key \in DOMAIN nArgs.map :
              /\ ~IsAbsent(nArgs.map[key]) => nResult[key] = nArgs.map[key]
              /\ IsAbsent(nArgs.map[key]) =>
                    /\ LooksNumber(key) => nResult[key] = Zero
                    /\ (~LooksNumber(key) /\ LooksBoolean(key)) => nResult[key] = False
                    /\ (~LooksNumber(key) /\ ~LooksBoolean(key) /\ LooksArray(key)) =>
                          nResult[key] = EmptySequence
                    /\ (/\ ~LooksNumber(key) /\ ~LooksBoolean(key)
                        /\ ~LooksArray(key) /\ LooksObject(key)) =>
                          nResult[key] = EmptyMapping
                    /\ (/\ ~LooksNumber(key) /\ ~LooksBoolean(key)
                        /\ ~LooksArray(key) /\ ~LooksObject(key)) =>
                          nResult[key] = EmptyString

\* an absent value under "hasItems", which matches the boolean and the
\* array convention, became false
C16_Witness ==
    /\ Normalized
    /\ k_hasItems \in DOMAIN nArgs.map
    /\ IsAbsent(nArgs.map[k_hasItems])
    /\ nResult[k_hasItems] = False

\* a map of two entries, one absent and one present
C16_WitnessSeveral ==
    /\ Normalized
    /\ \E a, b \in DOMAIN nArgs.map :
          /\ a # b
          /\ IsAbsent(nArgs.map[a]) /\ ~IsAbsent(nResult[a])
          /\ ~IsAbsent(nArgs.map[b]) /\ nResult[b] = nArgs.map[b]

\* key holds an absent value in the map the normalizer was given
AbsentUnder(key) ==
    Normalized /\ key \in DOMAIN nArgs.map /\ IsAbsent(nArgs.map[key])

\* C17 as stated: an absent value under a key containing "Count" anywhere
\* is normalized to 0
C17_ContainsCountGivesZero ==
    \A key \in Keys :
        (AbsentUnder(key) /\ includes(key, s_Count)) => nResult[key] = Zero

\* C17: an absent value under a key that ends with "Count" is normalized to
\* 0; "Count" elsewhere in the key gives 0 only if the key also contains
\* "number" or ends with "Id" or "Limit"
C17_EndsWithCountGivesZero ==
    \A key \in Keys :
        /\ (AbsentUnder(key) /\ endsWith(key, s_Count)) => nResult[key] = Zero
        /\ (/\ AbsentUnder(key) /\ includes(key, s_Count)
            /\ ~endsWith(key, s_Count) /\ ~includes(key, s_number)
            /\ ~endsWith(key, s_Id) /\ ~endsWith(key, s_Limit)) =>
                nResult[key] # Zero

\* absent values under "itemCount" and under "isCount" became 0
C17_Witness ==
    \E key \in {k_itemCount, k_isCount} :
        AbsentUnder(key) /\ endsWith(key, s_Count) /\ nResult[key] = Zero

\* an absent value under "maxCountPerPage" became the empty string
C17_WitnessInside ==
    AbsentUnder(k_maxCountPerPage) /\ nResult[k_maxCountPerPage] = EmptyString

\* C18 as stated: an absent value under a key starting with "is" is
\* normalized to false and one under a key ending with "List" to an empty
\* sequence, whatever the rest of the key
C18_IsFalseListEmpty ==
    \A key \in Keys :
        /\ (AbsentUnder(key) /\ startsWith(key, s_is)) => nResult[key] = False
        /\ (AbsentUnder(key) /\ endsWith(key, s_List)) => nResult[key] = EmptySequence

\* C18: an absent value under a key starting with "is" is normalized to
\* false unless the key matches the number convention (then 0); one under a
\* key ending with "List" is normalized to an empty sequence unless the key
\* matches the number convention (then 0) or the boolean one (then false)
C18_IsFalseListEmptyUnlessEarlier ==
    \A key \in Keys :
        /\ (AbsentUnder(key) /\ startsWith(key, s_is)) =>
              nResult[key] = IF LooksNumber(key) THEN Zero ELSE False
        /\ (AbsentUnder(key) /\ endsWith(key, s_List)) =>
              nResult[key] = IF LooksNumber(key) THEN Zero
                             ELSE IF LooksBoolean(key) THEN False
                             ELSE EmptySequence

\* an absent value under "isList", which starts with "is" and ends with
\* "List", became false
C18_Witness ==
    /\ AbsentUnder(k_isList)
    /\ startsWith(k_isList, s_is) /\ endsWith(k_isList, s_List)
    /\ nResult[k_isList] = False

\* an absent value under "nameList" became an empty sequence
C18_WitnessList ==
    AbsentUnder(k_nameList) /\ nResult[k_nameList] = EmptySequence

\* C19: listServerTools never throws; with an absent handle it returns
\* tools = [] and error "Server not connected" and queries no server; when
\* the query fails it returns tools = [] and, as error, the message of the
\* failure verbatim if that contains "Connection timeout", else prefixed
\* with "Failed to list tools: "; when the query succeeds the result has no
\* error field
C19_ListNeverThrows ==
    /\ lResult.state # "rejected"
    /\ lPc = "done" =>
          /\ lResult.state = "fulfilled"
          /\ lClient = "absent" =>
                /\ lQuery = NoPromise
                /\ lResult.value = [tools |-> <<>>, error |-> s_Server_not_connected]
          /\ lClient # "absent" => lQuery.state \in {"fulfilled", "rejected"}
          /\ lQuery.state = "rejected" =>
                LET original == IF lQuery.reason.isError THEN lQuery.reason.message
                                ELSE s_Unknown_error
                IN  /\ lResult.value.tools = <<>>
                    /\ lResult.value.error =
                          IF includes(original, s_Connection_timeout) THEN original
                          ELSE s_Failed_to_list_tools \o original
          /\ lQuery.state = "fulfilled" =>
                /\ DOMAIN lResult.value = {"tools"}
                /\ Len(lResult.value.tools) =
                      IF "tools" \in DOMAIN lQuery.value
                      THEN Len(lQuery.value.tools) ELSE 0

\* the query failed with a message that has "Connection timeout" inside it,
\* and the message came back as it was
C19_Witness ==
    /\ lPc = "done" /\ lQuery.state = "rejected"
    /\ includes(lQuery.reason.message, s_Connection_timeout)
    /\ lQuery.reason.message # s_Connection_timeout
    /\ lResult.value.error = lQuery.reason.message

\* an absent handle
C19_WitnessAbsent ==
    lPc = "done" /\ lClient = "absent" /\ lResult.value.tools = <<>>

\* a failure reported with the prefix
C19_WitnessPrefixed ==
    /\ lPc = "done" /\ lQuery.state = "rejected"
    /\ lResult.value.error = s_Failed_to_list_tools \o s_boom

\* C20: cancelToolExecution, given a handle whose transport has send, hands
\* it exactly one message, with method "notifications/cancelled" and params
\* {requestId, reason} equal to its arguments; given a handle with no
\* transport, or a transport without send, it sends nothing and fails with
\* an error; and when send fails, it fails with that failure
C20_CancelSendsOneOrFails ==
    cPc # "idle" =>
        /\ cIn.client = "sendable" =>
              /\ Len(cWire) = 1
              /\ cWire[1].method = "notifications/cancelled"
              /\ cWire[1].params =
                    [requestId |-> cIn.requestId, reason |-> cIn.reason]
              /\ cPc = "sending" => (cSend = Pending /\ cResult = Pending)
        /\ cIn.client \in {"noTransport", "noSend"} =>
              /\ cWire = <<>> /\ cSend = NoPromise
              /\ cPc = "done"
              /\ cResult.state = "rejected" /\ cResult.reason.isError
        /\ cSend.state = "rejected" =>
              (cResult.state = "rejected" /\ cResult.reason = cSend.reason)
        /\ cSend.state = "fulfilled" => cResult.state = "fulfilled"

\* send rejected, after the one message was handed over, and
\* cancelToolExecution failed with the same error
C20_Witness ==
    /\ cPc = "done" /\ cIn.client = "sendable"
    /\ Len(cWire) = 1 /\ cSend.state = "rejected"
    /\ cResult.state = "rejected" /\ cResult.reason = cSend.reason

\* a transport without send: nothing sent, an error
C20_WitnessNoSend ==
    /\ cPc = "done" /\ cIn.client = "noSend"
    /\ cWire = <<>> /\ cResult.reason.message = s_no_send

\* callTool of slot i returned a Failure made by the error classification
\* of the outer catch for a failure of its remote call
ClassifiedFailure(i) ==
    Returned(i) /\ SawCallFail(i) /\ ~IsTimeoutResult(Result(i))

\* C21: every Failure callTool makes by classifying a failure of the remote
\* call carries a message, a statusCode, an errorType and a
\* requiresAuthentication flag
C21_FullyPopulated ==
    \A i \in Calls :
        ClassifiedFailure(i) =>
            /\ Has(Result(i), "error") /\ Has(Result(i), "statusCode")
            /\ Has(Result(i), "errorType")
            /\ Has(Result(i), "requiresAuthentication")

\* what the classification does populate: success, a message and a
\* statusCode, and requiresAuthentication for 401 alone
C21_MessageAndStatusOnly ==
    \A i \in Calls :
        ClassifiedFailure(i) =>
            \/ DOMAIN Result(i) = {"success", "error", "statusCode"}
            \/ /\ DOMAIN Result(i) =
                    {"success", "error", "statusCode", "requiresAuthentication"}
               /\ Result(i).statusCode = 401

\* the statusCode and the message C22 gives for the failure `error` of a
\* remote call
ExpectedStatus(error) ==
    IF ~error.isMcp THEN 500
    ELSE IF error.code = -32601 THEN 404
    ELSE IF error.code = -32602 THEN 400
    ELSE 500

ExpectedMessage(error) ==
    IF error.isMcp
    THEN s_Failed_to_call_tool \o MessageOf(error) \o s_Code_open
         \o NumberToString(error.code) \o s_Code_close
    ELSE s_Failed_to_call_tool \o MessageOf(error)

\* the remote call of slot i failed with a message that has no
\* authentication marker and no "404" / "Not Found" in it
PlainFailure(i) ==
    /\ Returned(i) /\ SawCallFail(i)
    /\ ~IsAuthError(MessageOf(remote[i].reason))
    /\ ~IsNotFound(MessageOf(remote[i].reason))

\* C22: a remote failure whose message has no authentication marker and no
\* "404" / "Not Found" is returned with statusCode 404 / 400 / 500 for the
\* protocol codes -32601 / -32602 / -32603, 500 for any other protocol code
\* and for an error without a code, and with the message "Failed to call
\* tool: " + the original message (+ " (Code: n)" for a protocol error)
C22_StatusByCode ==
    \A i \in Calls :
        PlainFailure(i) =>
            /\ Result(i).success = FALSE
            /\ Result(i).statusCode = ExpectedStatus(remote[i].reason)
            /\ Result(i).error = ExpectedMessage(remote[i].reason)

\* the same, for the failures the inner catch does not take for the local
\* timeout
C22_StatusByCodeUnlessTimedOut ==
    \A i \in Calls :
        (/\ PlainFailure(i)
         /\ ~(Branch(input[i].timeout) = "timed" /\ IsTimeoutError(remote[i].reason))) =>
            /\ Result(i).success = FALSE
            /\ Result(i).statusCode = ExpectedStatus(remote[i].reason)
            /\ Result(i).error = ExpectedMessage(remote[i].reason)

\* C23: when callTool returns from the timed branch (by success, by timeout
\* or by a remote failure) its timer has been cleared or has fired: a
\* finished call has no armed timer, and the timer of a finished call does
\* not fire
C23_TimerReleased ==
    [][\A i \in Calls :
          /\ pc'[i] = "done" => timer'[i] # "armed"
          /\ (pc'[i] = "done" /\ Branch(input'[i].timeout) = "timed"
              /\ requests'[i] # <<>>) => timer'[i] \in {"cleared", "fired"}
          /\ (pc[i] = "done" /\ pc'[i] = "done") => timer'[i] = timer[i]]_vars

\* a remote failure in the timed branch, returned with the timer cleared
C23_Witness ==
    \E i \in Calls :
        /\ Returned(i) /\ SawCallFail(i) /\ PositiveTimeout(i)
        /\ ~IsTimeoutError(remote[i].reason)
        /\ timer[i] = "cleared"

\* the tokens the invocations hold; every token drawn so far, held or
\* forgotten, is below nextToken
TokensHeld == {progressToken[i] : i \in Calls} \ {0}

\* C24: every call request callTool issues carries the tool name it was
\* given, in _meta the progressToken drawn for this invocation, which no
\* invocation held before, and an arguments map without a top-level null or
\* undefined value; the map the caller passed is the same after the call as
\* before
C24_RequestWellFormed ==
    [][\A i \in Calls :
          /\ \A k \in 1..Len(requests'[i]) :
                /\ DOMAIN requests'[i][k] = {"name", "arguments", "_meta"}
                /\ requests'[i][k].name = input'[i].toolName
                /\ requests'[i][k]._meta.progressToken = progressToken'[i]
                /\ \A key \in DOMAIN requests'[i][k].arguments :
                      ~IsAbsent(requests'[i][k].arguments[key])
          /\ Len(requests'[i]) > Len(requests[i]) =>
                /\ Len(requests'[i]) = 1
                /\ progressToken'[i] \notin TokensHeld
                /\ \A t \in TokensHeld : t < nextToken
                /\ progressToken'[i] >= nextToken
                /\ progressToken'[i] < nextToken'
          /\ (pc[i] # "idle" /\ pc'[i] # "idle") => input'[i].args = input[i].args]_vars

\* a request was issued for a map with a null entry: the request holds the
\* default, the caller's map still holds null
C24_Witness ==
    \E i \in Calls :
        /\ Len(requests[i]) = 1
        /\ k_userId \in DOMAIN input[i].args
        /\ input[i].args[k_userId] = Null
        /\ k_userId \in DOMAIN requests[i][1].arguments
        /\ requests[i][1].arguments[k_userId] = Zero
        /\ requests[i][1].arguments[k_query] = input[i].args[k_query]

\* a second invocation, whose token is not the first one's
C24_WitnessSecond ==
    \E i \in Calls : Len(requests[i]) = 1 /\ progressToken[i] = 2

\* the statusCodes of a Failure
StatusCodes == {400, 401, 404, 408, 500}

\* C25: in every result callTool returns, a success=false result has a
\* statusCode among 400, 401, 404, 408 and 500; statusCode 408 goes with
\* errorType "timeout" and with nothing else; requiresAuthentication=true
\* goes with statusCode 401 and with nothing else; a success=true result has
\* no error and no statusCode
C25_ResultShape ==
    \A i \in Calls :
        Returned(i) =>
            LET r == Result(i)
                is408 == Has(r, "statusCode") /\ r.statusCode = 408
                is401 == Has(r, "statusCode") /\ r.statusCode = 401
                isTimeout == Has(r, "errorType") /\ r.errorType = "timeout"
                needsAuth == Has(r, "requiresAuthentication") /\ r.requiresAuthentication
            IN  /\ r.success \in BOOLEAN
                /\ ~r.success => (Has(r, "statusCode") /\ r.statusCode \in StatusCodes)
                /\ is408 <=> isTimeout
                /\ needsAuth <=> is401
                /\ r.success => (~Has(r, "error") /\ ~Has(r, "statusCode"))

\* an authentication Failure: 401 with the flag, and no errorType
C25_Witness ==
    \E i \in Calls :
        /\ Returned(i) /\ ~Result(i).success
        /\ Result(i).statusCode = 401
        /\ Result(i).requiresAuthentication
        /\ ~Has(Result(i), "errorType")

\* each of the five statusCodes is returned
C25_WitnessCode400 == \E i \in Calls : Returned(i) /\ ~Result(i).success /\ Result(i).statusCode = 400
C25_WitnessCode404 == \E i \in Calls : Returned(i) /\ ~Result(i).success /\ Result(i).statusCode = 404
C25_WitnessCode408 == \E i \in Calls : Returned(i) /\ ~Result(i).success /\ Result(i).statusCode = 408
C25_WitnessCode500 == \E i \in Calls : Returned(i) /\ ~Result(i).success /\ Result(i).statusCode = 500

\* the cancellation of slot i has run to its end: cancelToolExecution was
\* called once, and its send, where the transport has one, has settled
CancelSettled(i) ==
    /\ Len(cancels[i]) = 1
    /\ IF input[i].client = "sendable"
       THEN Len(wire[i]) = 1 /\ sending[i] \in {"fulfilled", "rejected"}
       ELSE wire[i] = <<>> /\ sending[i] = "none"

\* C26: whenever callTool has returned a timeout Failure, its call of
\* cancelToolExecution (and the send, where the transport has one) was
\* started and has settled; and cancelToolExecution is called only after
\* the timer has fired
C26_CancelAfterTimerBeforeReturn ==
    \A i \in Calls :
        /\ (Returned(i) /\ IsTimeoutResult(Result(i))) => CancelSettled(i)
        /\ CancelAttempted(i) => timer[i] = "fired"

\* the part of C26 about the return: the Failure is delivered after the
\* cancellation has settled, and no result is delivered while it is under way
C26_CancelSettledBeforeReturn ==
    \A i \in Calls :
        /\ (Returned(i) /\ IsTimeoutResult(Result(i))) => CancelSettled(i)
        /\ sending[i] = "pending" => (pc[i] = "cancelling" /\ settled[i] = Pending)

\* C27: an absent value is normalized to an empty mapping only under a key
\* that contains "object" or ends with "Config" and matches none of the
\* number, boolean and array rules; under a key ending with "Options" or
\* "Settings" and not containing "object" it is never normalized to an
\* empty mapping (such a key ends with "s": the array rule takes it)
C27_OptionsSettingsNeverMapping ==
    \A key \in Keys :
        AbsentUnder(key) =>
            /\ nResult[key] = EmptyMapping =>
                  /\ includes(key, s_object) \/ endsWith(key, s_Config)
                  /\ ~LooksNumber(key) /\ ~LooksBoolean(key) /\ ~LooksArray(key)
            /\ (/\ endsWith(key, s_Options) \/ endsWith(key, s_Settings)
                /\ ~includes(key, s_object)) =>
                  /\ endsWith(key, s_s)
                  /\ nResult[key] # EmptyMapping

\* an absent value under "runOptions" became an empty sequence
C27_Witness ==
    /\ AbsentUnder(k_runOptions) /\ endsWith(k_runOptions, s_Options)
    /\ nResult[k_runOptions] = EmptySequence

\* absent values under "appSettings", "runConfig" and "objectData"
C27_WitnessSettings ==
    AbsentUnder(k_appSettings) /\ nResult[k_appSettings] = EmptySequence

C27_WitnessConfig ==
    AbsentUnder(k_runConfig) /\ nResult[k_runConfig] = EmptyMapping

C27_WitnessObject ==
    AbsentUnder(k_objectData) /\ nResult[k_objectData] = EmptyMapping

(***************************************************************************)
(* C28                                                                     *)
(***************************************************************************)

\* the handler has finished: its promise has settled
HandlerFinished == uPc = "done"

\* C28: when handleRun, handleInstall or handleBuild has finished, its busy
\* flag is false again, on every path, also when the awaited helper failed.
C28_BusyFlagsReset ==
    HandlerFinished => (~isRunning /\ ~isInstalling /\ ~isBuilding)

\* handleRun resets its flag on every path: its awaits are inside try/finally
C28_RunFlagReset ==
    (HandlerFinished /\ uHandler = "run") => ~isRunning

\* handleInstall and handleBuild reset their flag when the helper's promise
\* is fulfilled, whether the command succeeded or not
C28_ResetWhenHelperFulfils ==
    (HandlerFinished /\ uReturn.state = "fulfilled")
        => (~isRunning /\ ~isInstalling /\ ~isBuilding)

\* a handler whose helper's promise was rejected has finished
C28_HelperRejected == HandlerFinished /\ uReturn.state = "rejected"
====
